---- MODULE Spec2Model ----
(***************************************************************************)
(* Model of phils_swing_strategy.py: the weekly breakout back-test.        *)
(*                                                                         *)
(* Prices are exact integers in units of 1e-4 dollar (10.00 dollars is     *)
(* 100000), fractions are percents (0.07 is 7), so that every product      *)
(* price * (1 + fraction) the script computes is an integer here; other    *)
(* floats (profit, means) are exact quotients of integers.  The rounding   *)
(* of binary floating point is not modelled.  Dates are day numbers, day 0 *)
(* being a Monday.                                                         *)
(***************************************************************************)
EXTENDS Integers, Sequences, FiniteSets, TLC

VARIABLES
    cfg,                    \* the run's configuration flags (lines 103-125)
    data,                   \* the annotated, date-sorted bar table
    grouped,                \* the weekly segments of data, in week order
    total_weeks,
    pc,                     \* position of the script
    w,                      \* index in grouped of the current week
    weekly_data,            \* the current week's rows
    j,                      \* index in weekly_data of the next row to iterate
    trade_entry_date,
    trade_exit_date,
    trade_entry_price,
    trade_exit_price,
    trade_entry_rsi,
    increased_take_profit,
    trade_made,
    limit_price,            \* line 169, as left by the last iteration
    take_profit_price,      \* lines 170 and 200, as left by the last iteration
    trades,
    rng_calls,              \* how many values the random source has handed out
    trades_log,             \* the content of ./trades.log, None before it is written
    report                  \* the metrics of lines 251-257, None before they exist

vars == <<cfg, data, grouped, total_weeks, pc, w, weekly_data, j,
          trade_entry_date, trade_exit_date, trade_entry_price,
          trade_exit_price, trade_entry_rsi, increased_take_profit,
          trade_made, limit_price, take_profit_price, trades, rng_calls,
          trades_log, report>>

weekVars == <<trade_entry_date, trade_exit_date, trade_entry_price,
              trade_exit_price, trade_entry_rsi, increased_take_profit,
              trade_made, limit_price, take_profit_price>>

-----------------------------------------------------------------------------
(* Bounds of the model *)

MaxBars == 4
MaxGateBars == 2

-----------------------------------------------------------------------------
(* Values and constants of the script *)

\* Python's None, as a number no date or price takes
None == -2

\* pandas' NaN, as a number no indicator takes; every comparison with it is false
NaN == -1

MON == 0
TUE == 1
WED == 2
THU == 3
FRI == 4

take_profit_percentage == 7
take_profit_increase == 1
open_max_slippage == 100
close_max_slippage == 100
rsi_low == 51
rsi_high == 73
slope_lookback == 1
allowed_days == {MON, WED, THU, FRI}

\* lines 103-125 as written in the script
SourceParams ==
    [open_limit_offset |-> 100,
     use_sma |-> FALSE, use_hma |-> FALSE,
     use_rsi_low |-> TRUE, use_rsi_hi |-> TRUE, use_rsi_slope |-> TRUE]

\* the values random.uniform(-m, m) is sampled at: both ends and the middle
Uniform(m) == {0 - m, 0, m}

\* float comparisons, false when either side is NaN
Gt(a, b) == a # NaN /\ b # NaN /\ a > b
Ge(a, b) == a # NaN /\ b # NaN /\ a >= b
Le(a, b) == a # NaN /\ b # NaN /\ a <= b

weekday(d) == d % 7

-----------------------------------------------------------------------------
(* Indicator columns and week grouping, lines 131-151 *)

\* data['RSI'].shift(slope_lookback)
Previous_RSI(raw, i) ==
    IF i - slope_lookback >= 1 THEN raw[i - slope_lookback].RSI ELSE NaN

\* UpSlope with >= for >
UpSlope_NonStrict(raw, i) == Ge(raw[i].RSI, Previous_RSI(raw, i))

\* data['RSI'] > data['Previous_RSI']
UpSlope(raw, i) == Gt(raw[i].RSI, Previous_RSI(raw, i))

\* WeekStart keyed by the day instead of the week
WeekStart_Daily(d) == d

\* data.index.to_period('W').start_time: the Monday of the row's week
WeekStart(d) == d - (d % 7)

Annotate(raw) ==
    [i \in 1..Len(raw) |->
        [Date |-> raw[i].Date, Open |-> raw[i].Open, High |-> raw[i].High,
         Low |-> raw[i].Low, Close |-> raw[i].Close,
         SMA |-> raw[i].SMA, HMA |-> raw[i].HMA, RSI |-> raw[i].RSI,
         Previous_RSI |-> Previous_RSI(raw, i),
         UpSlope |-> UpSlope(raw, i),
         WeekStart |-> WeekStart(raw[i].Date)]]

\* the rows of d whose key is k, in the order of d
RECURSIVE RowsOf(_, _)
RowsOf(d, k) ==
    IF d = <<>> THEN <<>>
    ELSE IF Head(d).WeekStart = k THEN <<Head(d)>> \o RowsOf(Tail(d), k)
    ELSE RowsOf(Tail(d), k)

\* the elements of the set of numbers S in ascending order
RECURSIVE SortedKeys(_)
SortedKeys(S) ==
    IF S = {} THEN <<>>
    ELSE LET m == CHOOSE x \in S : \A y \in S : x <= y
         IN <<m>> \o SortedKeys(S \ {m})

\* data.groupby('Week Start'): one group per key, keys ascending
GroupBy(d) ==
    LET keys == SortedKeys({d[i].WeekStart : i \in 1..Len(d)})
    IN [g \in 1..Len(keys) |-> RowsOf(d, keys[g])]

-----------------------------------------------------------------------------
(* Inputs *)

\* Monday, Wednesday, Thursday and Friday of one week, Monday of the next
Days == {0, 2, 3, 4, 7}

\* open, high, low, close of a bar: a quiet day, a day rallying more than
\* 8 percent, and a day opening 10 percent lower and rallying 7.8 percent
Shapes ==
    { [Open |-> 99900, High |-> 100000, Low |-> 99000, Close |-> 99900],
      [Open |-> 99900, High |-> 108500, Low |-> 99000, Close |-> 102000],
      [Open |-> 90000, High |-> 97000, Low |-> 89000, Close |-> 95000] }

RSIs == {51, 60}

\* Monday, Tuesday and Wednesday of one week
GateDays == {0, 1, 2}

\* a bar whose high and low are within the slippage of its open
GateShapes ==
    { [Open |-> 99900, High |-> 100000, Low |-> 99850, Close |-> 99900] }

\* undefined, and both sides of rsi_low and of rsi_high
GateRSIs == {NaN, 50, 51, 73, 74}

\* SMA and HMA of a bar: undefined, below the open, equal to the open
GateMAs == {<<NaN, NaN>>, <<99000, 99900>>, <<99900, 99000>>, <<99000, 99000>>}

\* settings of lines 103-119: as written, every gate on, every gate off, one
\* moving-average gate on
GateParams ==
    { SourceParams,
      [open_limit_offset |-> 0 - 100,
       use_sma |-> TRUE, use_hma |-> TRUE,
       use_rsi_low |-> TRUE, use_rsi_hi |-> TRUE, use_rsi_slope |-> TRUE],
      [open_limit_offset |-> 0,
       use_sma |-> FALSE, use_hma |-> FALSE,
       use_rsi_low |-> FALSE, use_rsi_hi |-> FALSE, use_rsi_slope |-> FALSE],
      [open_limit_offset |-> 100,
       use_sma |-> TRUE, use_hma |-> FALSE,
       use_rsi_low |-> FALSE, use_rsi_hi |-> FALSE, use_rsi_slope |-> FALSE],
      [open_limit_offset |-> 0,
       use_sma |-> FALSE, use_hma |-> TRUE,
       use_rsi_low |-> TRUE, use_rsi_hi |-> FALSE, use_rsi_slope |-> TRUE] }

\* the strictly ascending date sequences of length n
DateSeqs(days, n) ==
    {f \in [1..n -> days] : \A a \in 1..n : \A b \in 1..n : a < b => f[a] < f[b]}

\* the tables of at most maxlen bars yf.download and lines 128-130 can hand over
RawData(days, shapes, rsis, mas, maxlen) ==
    UNION { { [i \in 1..n |->
                  [Date |-> ds[i], Open |-> c[i][1].Open, High |-> c[i][1].High,
                   Low |-> c[i][1].Low, Close |-> c[i][1].Close,
                   RSI |-> c[i][2], SMA |-> c[i][3][1], HMA |-> c[i][3][2]]] :
              ds \in DateSeqs(days, n), c \in [1..n -> shapes \X rsis \X mas] } :
            n \in 0..maxlen }

-----------------------------------------------------------------------------
(* The script *)

InitWith(params, raws) ==
    /\ cfg \in params
    /\ \E raw \in raws :
          /\ data = Annotate(raw)
          /\ grouped = GroupBy(Annotate(raw))
          /\ total_weeks = Len(GroupBy(Annotate(raw)))
    /\ pc = "week"
    /\ w = 1
    /\ weekly_data = <<>>
    /\ j = 1
    /\ trade_entry_date = None
    /\ trade_exit_date = None
    /\ trade_entry_price = None
    /\ trade_exit_price = None
    /\ trade_entry_rsi = None
    /\ increased_take_profit = FALSE
    /\ trade_made = FALSE
    /\ limit_price = None
    /\ take_profit_price = None
    /\ trades = <<>>
    /\ rng_calls = 0
    /\ trades_log = None
    /\ report = None

\* the script as written, over price paths of up to MaxBars bars
Init == InitWith({SourceParams}, RawData(Days, Shapes, RSIs, {<<NaN, NaN>>}, MaxBars))

\* the script under other settings of its flags, over indicator values on
\* both sides of every gate
InitGates ==
    InitWith(GateParams, RawData(GateDays, GateShapes, GateRSIs, GateMAs, MaxGateBars))

\* lines 153-162: the next group, its per-week variables reset
BeginWeek ==
    /\ pc = "week"
    /\ w <= Len(grouped)
    /\ weekly_data' = grouped[w]
    /\ j' = 1
    /\ trade_entry_date' = None
    /\ trade_exit_date' = None
    /\ trade_entry_price' = None
    /\ trade_exit_price' = None
    /\ trade_entry_rsi' = None
    /\ increased_take_profit' = FALSE
    /\ trade_made' = FALSE
    /\ pc' = "bar"
    /\ UNCHANGED <<cfg, data, grouped, total_weeks, w, limit_price, take_profit_price,
                   trades, rng_calls, trades_log, report>>

\* price_condition_met with the two sides of the bar swapped
price_condition_met_Swapped(row, limit) ==
    \/ cfg.open_limit_offset > 0 /\ Le(row.Low, limit)
    \/ cfg.open_limit_offset <= 0 /\ Ge(row.High, limit)

\* lines 174-177
price_condition_met(row, limit) ==
    \/ cfg.open_limit_offset > 0 /\ Ge(row.High, limit)
    \/ cfg.open_limit_offset <= 0 /\ Le(row.Low, limit)

\* lines 178-184
indicators_condition_met(row) ==
    /\ (~cfg.use_sma \/ Gt(row.Open, row.SMA))
    /\ (~cfg.use_hma \/ Gt(row.Open, row.HMA))
    /\ (~cfg.use_rsi_slope \/ row.UpSlope)
    /\ (~cfg.use_rsi_low \/ Ge(row.RSI, rsi_low))
    /\ (~cfg.use_rsi_hi \/ Le(row.RSI, rsi_high))

\* lines 185-187
days_condition_met(row) == weekday(row.Date) \in allowed_days

\* line 170
InitialTarget(limit) ==
    (limit * (100 + take_profit_percentage)) \div 100

\* line 198: high >= entry * (1 + take_profit_percentage / 2.0)
BoostTriggered(row, entry_price) ==
    row.High * 200 >= entry_price * (200 + take_profit_percentage)

\* line 200
BoostedTarget(entry_price) ==
    (entry_price * (100 + take_profit_percentage + take_profit_increase)) \div 100

\* the per-week variables as one value
WeekState ==
    [trade_entry_date |-> trade_entry_date,
     trade_exit_date |-> trade_exit_date,
     trade_entry_price |-> trade_entry_price,
     trade_exit_price |-> trade_exit_price,
     trade_entry_rsi |-> trade_entry_rsi,
     increased_take_profit |-> increased_take_profit,
     trade_made |-> trade_made,
     limit_price |-> limit_price,
     take_profit_price |-> take_profit_price]

\* SeekingEntry without the test of line 172
SeekingEntry_Always(s) == TRUE

\* line 172
SeekingEntry(s) == s.trade_entry_date = None

\* ExitTarget as if the exit check of lines 204-205 ran before the boost
\* check of lines 197-201
ExitTarget_BeforeBoost(boost, entry_price, limit) == InitialTarget(limit)

\* the target the exit check of line 205 compares with: line 170's, replaced
\* by line 200's when the boost check has fired in this iteration
ExitTarget(boost, entry_price, limit) ==
    IF boost THEN BoostedTarget(entry_price) ELSE InitialTarget(limit)

\* lines 167-207: the per-week variables after the iteration over row, from
\* the per-week variables s and the value drawn at line 168
BarStep(s, row, slippage) ==
    LET limit == row.Open + cfg.open_limit_offset + slippage
        enter == /\ SeekingEntry(s)
                 /\ price_condition_met(row, limit)
                 /\ indicators_condition_met(row)
                 /\ days_condition_met(row)
        entry_date == IF enter THEN row.Date ELSE s.trade_entry_date
        entry_price == IF enter THEN limit ELSE s.trade_entry_price
        boost == /\ entry_date # None
                 /\ ~s.increased_take_profit
                 /\ BoostTriggered(row, entry_price)
        target == ExitTarget(boost, entry_price, limit)
        hit == entry_date # None /\ row.High >= target
    IN  [trade_entry_date |-> entry_date,
         trade_exit_date |-> IF hit THEN row.Date ELSE s.trade_exit_date,
         trade_entry_price |-> entry_price,
         trade_exit_price |-> IF hit THEN target ELSE s.trade_exit_price,
         trade_entry_rsi |-> IF enter THEN row.RSI ELSE s.trade_entry_rsi,
         increased_take_profit |-> (s.increased_take_profit \/ boost),
         trade_made |-> (s.trade_made \/ enter),
         limit_price |-> limit,
         take_profit_price |-> target]

\* LoopContinues without the break of line 208
LoopContinues_NoBreak(s, k) == k < Len(weekly_data)

\* the loop of line 165 goes on after row k: no break at line 208 and a row left
LoopContinues(s, k) == s.trade_exit_date = None /\ k < Len(weekly_data)

\* lines 165-208: one iteration of the loop over the week's rows
ProcessBar ==
    /\ pc = "bar"
    /\ j <= Len(weekly_data)
    /\ \E slippage \in Uniform(open_max_slippage) :
        LET n == BarStep(WeekState, weekly_data[j], slippage)
        IN  /\ trade_entry_date' = n.trade_entry_date
            /\ trade_entry_price' = n.trade_entry_price
            /\ trade_entry_rsi' = n.trade_entry_rsi
            /\ trade_made' = n.trade_made
            /\ increased_take_profit' = n.increased_take_profit
            /\ limit_price' = n.limit_price
            /\ take_profit_price' = n.take_profit_price
            /\ trade_exit_date' = n.trade_exit_date
            /\ trade_exit_price' = n.trade_exit_price
            /\ j' = j + 1
            /\ pc' = IF LoopContinues(n, j) THEN "bar" ELSE "eow"
    /\ rng_calls' = rng_calls + 1
    /\ UNCHANGED <<cfg, data, grouped, total_weeks, w, weekly_data, trades,
                   trades_log, report>>

\* ForcedExit closing at the last row of the whole table, not of the week
ForcedExit_TableEnd ==
    /\ pc = "eow"
    /\ trade_entry_date # None /\ trade_exit_date = None
    /\ \E slippage \in Uniform(close_max_slippage) :
        /\ trade_exit_date' = data[Len(data)].Date
        /\ trade_exit_price' = data[Len(data)].Close + slippage
    /\ rng_calls' = rng_calls + 1
    /\ pc' = "record"
    /\ UNCHANGED <<cfg, data, grouped, total_weeks, w, weekly_data, j,
                   trade_entry_date, trade_entry_price, trade_entry_rsi,
                   increased_take_profit, trade_made, limit_price,
                   take_profit_price, trades, trades_log, report>>

\* ForcedExit closing at the last row's open instead of its close
ForcedExit_AtOpen ==
    /\ pc = "eow"
    /\ trade_entry_date # None /\ trade_exit_date = None
    /\ \E slippage \in Uniform(close_max_slippage) :
        /\ trade_exit_date' = weekly_data[Len(weekly_data)].Date
        /\ trade_exit_price' = weekly_data[Len(weekly_data)].Open + slippage
    /\ rng_calls' = rng_calls + 1
    /\ pc' = "record"
    /\ UNCHANGED <<cfg, data, grouped, total_weeks, w, weekly_data, j,
                   trade_entry_date, trade_entry_price, trade_entry_rsi,
                   increased_take_profit, trade_made, limit_price,
                   take_profit_price, trades, trades_log, report>>

\* ForcedExit at the last row's close itself, line 214 left out
ForcedExit_NoDraw ==
    /\ pc = "eow"
    /\ trade_entry_date # None /\ trade_exit_date = None
    /\ trade_exit_date' = weekly_data[Len(weekly_data)].Date
    /\ trade_exit_price' = weekly_data[Len(weekly_data)].Close
    /\ pc' = "record"
    /\ UNCHANGED <<cfg, data, grouped, total_weeks, w, weekly_data, j,
                   trade_entry_date, trade_entry_price, trade_entry_rsi,
                   increased_take_profit, trade_made, limit_price,
                   take_profit_price, trades, rng_calls, trades_log, report>>

\* lines 211-215: still in a trade after the loop
ForcedExit ==
    /\ pc = "eow"
    /\ trade_entry_date # None /\ trade_exit_date = None
    /\ \E slippage \in Uniform(close_max_slippage) :
        /\ trade_exit_date' = weekly_data[Len(weekly_data)].Date
        /\ trade_exit_price' = weekly_data[Len(weekly_data)].Close + slippage
    /\ rng_calls' = rng_calls + 1
    /\ pc' = "record"
    /\ UNCHANGED <<cfg, data, grouped, total_weeks, w, weekly_data, j,
                   trade_entry_date, trade_entry_price, trade_entry_rsi,
                   increased_take_profit, trade_made, limit_price,
                   take_profit_price, trades, trades_log, report>>

\* NoForcedExit taken whatever line 211 finds
NoForcedExit_Always ==
    /\ pc = "eow"
    /\ pc' = "record"
    /\ UNCHANGED <<cfg, data, grouped, total_weeks, w, weekly_data, j, weekVars,
                   trades, rng_calls, trades_log, report>>

\* line 211 false: nothing to close
NoForcedExit ==
    /\ pc = "eow"
    /\ ~(trade_entry_date # None /\ trade_exit_date = None)
    /\ pc' = "record"
    /\ UNCHANGED <<cfg, data, grouped, total_weeks, w, weekly_data, j, weekVars,
                   trades, rng_calls, trades_log, report>>

\* the greatest common divisor of a >= 0 and b > 0
RECURSIVE Gcd(_, _)
Gcd(a, b) == IF a = 0 THEN b ELSE Gcd(b % a, a)

\* a float that is the quotient n / d of two integers (d > 0), kept exact
\* and in lowest terms
Rat(n, d) ==
    LET g == Gcd(IF n < 0 THEN 0 - n ELSE n, d)
    IN [num |-> n \div g, den |-> d \div g]

RatAdd(a, b) == Rat(a.num * b.den + b.num * a.den, a.den * b.den)

RatLess(a, b) == a.num * b.den < b.num * a.den

\* lines 219-232
TradeRecord ==
    [EntryDate |-> trade_entry_date,
     ExitDate |-> trade_exit_date,
     EntryPrice |-> trade_entry_price,
     ExitPrice |-> trade_exit_price,
     Profit |-> Rat((trade_exit_price - trade_entry_price) * 100, trade_entry_price),
     DaysInTrade |-> trade_exit_date - trade_entry_date,
     EntryDay |-> weekday(trade_entry_date),
     ExitDay |-> weekday(trade_exit_date),
     EntryRSI |-> trade_entry_rsi,
     TPBoost |-> increased_take_profit]

\* RecordTrade with the append inside the loop over the week's rows
RecordTrade_PerRow ==
    /\ pc = "record"
    /\ trade_made
    /\ trades' = trades \o [k \in 1..Len(weekly_data) |-> TradeRecord]
    /\ w' = w + 1
    /\ pc' = "week"
    /\ UNCHANGED <<cfg, data, grouped, total_weeks, weekly_data, j, weekVars,
                   rng_calls, trades_log, report>>

\* lines 218-232, trade_made true
RecordTrade ==
    /\ pc = "record"
    /\ trade_made
    /\ trades' = Append(trades, TradeRecord)
    /\ w' = w + 1
    /\ pc' = "week"
    /\ UNCHANGED <<cfg, data, grouped, total_weeks, weekly_data, j, weekVars,
                   rng_calls, trades_log, report>>

\* line 218, trade_made false
NoTrade ==
    /\ pc = "record"
    /\ ~trade_made
    /\ w' = w + 1
    /\ pc' = "week"
    /\ UNCHANGED <<cfg, data, grouped, total_weeks, weekly_data, j, weekVars,
                   trades, rng_calls, trades_log, report>>

-----------------------------------------------------------------------------
(* Aggregation and reporting, lines 235-272 *)

\* trades_df['Profit (%)'].sum()
RECURSIVE SumProfit(_)
SumProfit(ts) ==
    IF ts = <<>> THEN Rat(0, 1) ELSE RatAdd(Head(ts).Profit, SumProfit(Tail(ts)))

\* trades_df['Days in Trade'].sum()
RECURSIVE SumDays(_)
SumDays(ts) ==
    IF ts = <<>> THEN 0 ELSE Head(ts).DaysInTrade + SumDays(Tail(ts))

\* line 252: len(trades_df[trades_df['Profit (%)'] > 0])
winning_trades(ts) ==
    Cardinality({i \in 1..Len(ts) : ts[i].Profit.num > 0})

\* line 244: idxmax, the first row holding the maximum
IdxMax(ts) ==
    CHOOSE i \in 1..Len(ts) :
        /\ \A k \in 1..Len(ts) : ~RatLess(ts[i].Profit, ts[k].Profit)
        /\ \A k \in 1..(i - 1) : RatLess(ts[k].Profit, ts[i].Profit)

\* line 245: idxmin, the first row holding the minimum
IdxMin(ts) ==
    CHOOSE i \in 1..Len(ts) :
        /\ \A k \in 1..Len(ts) : ~RatLess(ts[k].Profit, ts[i].Profit)
        /\ \A k \in 1..(i - 1) : RatLess(ts[i].Profit, ts[k].Profit)

\* profit_per_week dividing by the number of trades
profit_per_week_PerTrade(ts, weeks) ==
    LET s == SumProfit(ts) IN Rat(s.num, s.den * Len(ts))

\* line 256: trades_df['Profit (%)'].sum() / total_weeks
profit_per_week(ts, weeks) ==
    LET s == SumProfit(ts) IN Rat(s.num, s.den * weeks)

\* lines 239-257 for a non-empty trade table
Metrics(ts, weeks) ==
    [total_trades |-> Len(ts),
     winning_trades |-> winning_trades(ts),
     losing_trades |-> Len(ts) - winning_trades(ts),
     win_rate |-> Rat(winning_trades(ts) * 100, Len(ts)),
     average_profit |-> LET s == SumProfit(ts) IN Rat(s.num, s.den * Len(ts)),
     profit_per_week |-> profit_per_week(ts, weeks),
     average_days_in_trade |-> Rat(SumDays(ts), Len(ts)),
     max_exit_profit |-> ts[IdxMax(ts)].Profit,
     min_exit_profit |-> ts[IdxMin(ts)].Profit,
     max_exit_profit_date |-> ts[IdxMax(ts)].ExitDate,
     min_exit_profit_date |-> ts[IdxMin(ts)].ExitDate,
     total_weeks |-> weeks]

\* lines 235-272 with at least one trade: the file is written, the metrics
\* are computed and printed
Aggregate ==
    /\ pc = "week"
    /\ w > Len(grouped)
    /\ trades # <<>>
    /\ trades_log' = trades
    /\ report' = Metrics(trades, total_weeks)
    /\ pc' = "done"
    /\ UNCHANGED <<cfg, data, grouped, total_weeks, w, weekly_data, j, weekVars,
                   trades, rng_calls>>

\* lines 235-252 with no trade: pd.DataFrame([]) has no columns, the file is
\* written, the guarded lines 239-245 are skipped, and the unguarded
\* trades_df['Profit (%)'] of line 252 raises KeyError; nothing is reported
AggregateEmpty ==
    /\ pc = "week"
    /\ w > Len(grouped)
    /\ trades = <<>>
    /\ trades_log' = trades
    /\ pc' = "raised"
    /\ UNCHANGED <<cfg, data, grouped, total_weeks, w, weekly_data, j, weekVars,
                   trades, rng_calls, report>>

Next ==
    \/ BeginWeek
    \/ ProcessBar
    \/ ForcedExit
    \/ NoForcedExit
    \/ RecordTrade
    \/ NoTrade
    \/ Aggregate
    \/ AggregateEmpty

Spec == Init /\ [][Next]_vars

SpecGates == InitGates /\ [][Next]_vars

-----------------------------------------------------------------------------
(* Properties *)

\* the week's last row, weekly_data.iloc[-1]
LastRow == weekly_data[Len(weekly_data)]

\* the loop over the week's rows ended by the break of line 208
ClosedByTakeProfit == pc = "eow" /\ trade_exit_date # None

\* the two targets a trade entered at price p is meant to have
TargetsOf(p) == {(p * 107) \div 100, (p * 108) \div 100}

\* C1: a trade closed by the take-profit branch exits at a target derived
\* from its own entry price, entry * 1.07 or entry * 1.08
C1_ExitAtEntryTarget ==
    ClosedByTakeProfit => trade_exit_price \in TargetsOf(trade_entry_price)

\* C2: once a trade is boosted, the target the exit check of every evaluated
\* bar uses is entry * 1.08
C2_BoostedTargetKept ==
    (pc \in {"bar", "eow"} /\ trade_entry_date # None /\ increased_take_profit)
        => take_profit_price = (trade_entry_price * 108) \div 100

\* C3: a trade none of whose bars, from the entry bar to the week's last,
\* has a high of at least entry * 1.07 is not closed by the take-profit branch
C3_NoTargetNoTakeProfit ==
    (/\ pc = "eow"
     /\ trade_entry_date # None
     /\ \A k \in 1..Len(weekly_data) :
            weekly_data[k].Date >= trade_entry_date
                => weekly_data[k].High * 100 < trade_entry_price * 107)
        => trade_exit_date = None

\* C4: every weekly segment appends at most one Trade, so the trades never
\* outnumber the segments processed, and no two trades are of the same week
C4_AtMostOneTradePerWeek ==
    /\ Len(trades) <= w - 1
    /\ Len(trades) <= total_weeks
    /\ \A a \in 1..Len(trades) : \A b \in 1..Len(trades) :
          a < b => trades[a].EntryDate \div 7 < trades[b].EntryDate \div 7

C4_TwoWeeksTwoTrades ==
    pc = "done" /\ total_weeks = 2 /\ Len(trades) = 2

\* the dates of the bars of segment g
SegmentDates(g) == {grouped[g][k].Date : k \in 1..Len(grouped[g])}

\* C5: every recorded Trade has entry_date <= exit_date, both being dates of
\* bars of one weekly segment
C5_DatesWithinWeek ==
    \A i \in 1..Len(trades) :
        /\ trades[i].EntryDate <= trades[i].ExitDate
        /\ \E g \in 1..Len(grouped) :
              {trades[i].EntryDate, trades[i].ExitDate} \subseteq SegmentDates(g)

C5_TradeOverSeveralDays ==
    /\ pc = "done"
    /\ total_weeks = 2
    /\ \E i \in 1..Len(trades) :
          /\ trades[i].EntryDate < trades[i].ExitDate
          /\ trades[i].ExitDate < data[Len(data)].Date

\* C6: a trade still open once the week's last bar has been processed is
\* closed on that bar's date, at its close give or take close_max_slippage
C6_ForcedExitAtLastBar ==
    [][(pc = "eow" /\ trade_entry_date # None /\ trade_exit_date = None)
          => /\ j = Len(weekly_data) + 1
             /\ pc' = "record"
             /\ trade_exit_date' = LastRow.Date
             /\ trade_exit_price' >= LastRow.Close - 100
             /\ trade_exit_price' <= LastRow.Close + 100]_vars

\* entered on the week's last bar of several and closed by the forced exit
C6_EnteredOnLastBar ==
    /\ pc = "record"
    /\ Len(weekly_data) >= 2
    /\ trade_entry_date = LastRow.Date
    /\ trade_exit_date = LastRow.Date
    /\ LastRow.High < take_profit_price
    /\ trade_exit_price = LastRow.Close - 100

\* C7: when every week of a run ends without a trade, the aggregation
\* completes and reports win_rate, average_profit, profit_per_week and
\* average_days_in_trade as 0
C7_ZeroTradesReported ==
    (pc \in {"done", "raised"} /\ total_weeks >= 1 /\ trades = <<>>)
        => /\ pc = "done"
           /\ report.win_rate.num = 0
           /\ report.average_profit.num = 0
           /\ report.profit_per_week.num = 0
           /\ report.average_days_in_trade.num = 0

\* the entry conditions of a bar at a limit price, as the design states them
C8_PriceCondition(row, limit) ==
    IF cfg.open_limit_offset > 0 THEN row.High >= limit ELSE row.Low <= limit

C8_GatesPass(row) ==
    /\ cfg.use_sma => (row.SMA # NaN /\ row.Open > row.SMA)
    /\ cfg.use_hma => (row.HMA # NaN /\ row.Open > row.HMA)
    /\ cfg.use_rsi_slope =>
          (row.RSI # NaN /\ row.Previous_RSI # NaN /\ row.RSI > row.Previous_RSI)
    /\ cfg.use_rsi_low => (row.RSI # NaN /\ row.RSI >= 51)
    /\ cfg.use_rsi_hi => (row.RSI # NaN /\ row.RSI <= 73)

C8_DayAllowed(row) == row.Date % 7 \in {0, 2, 3, 4}

\* C8: while no trade is entered, a bar enters one exactly if its price
\* condition, every enabled gate and the weekday condition hold together,
\* at that bar's date and limit price; and a week records a Trade exactly if
\* some bar entered
C8_EntryIffConditions ==
    /\ [][(pc = "bar" /\ trade_entry_date = None)
            => LET row == weekly_data[j]
                   all == /\ C8_PriceCondition(row, limit_price')
                          /\ C8_GatesPass(row)
                          /\ C8_DayAllowed(row)
               IN /\ (trade_entry_date' # None) <=> all
                  /\ all => /\ trade_entry_date' = row.Date
                            /\ trade_entry_price' = limit_price'
                            /\ trade_made']_vars
    /\ [][pc = "record"
            => /\ (trade_entry_date # None) <=> (Len(trades') = Len(trades) + 1)
               /\ (trade_entry_date = None) <=> (trades' = trades)]_vars

\* entered on the second bar of a week with every gate on and the limit
\* below the open
C8_EntryOnSecondBar ==
    /\ pc = "record"
    /\ Len(weekly_data) = 2
    /\ trade_entry_date = weekly_data[2].Date
    /\ cfg.use_sma /\ cfg.use_hma /\ cfg.use_rsi_slope
    /\ cfg.open_limit_offset < 0

\* the oscillator value slope_lookback bars before the bar dated d, NaN when
\* there is no such bar
C9_EarlierRSI(d) ==
    LET i == CHOOSE k \in 1..Len(data) : data[k].Date = d
    IN IF i > 1 THEN data[i - 1].RSI ELSE NaN

\* C9: with the oscillator-rising gate on, a bar whose oscillator equals the
\* value slope_lookback bars earlier, or has either undefined, enters no trade
C9_FlatOscillatorNoEntry ==
    [][(/\ pc = "bar"
        /\ trade_entry_date = None
        /\ cfg.use_rsi_slope
        /\ LET row == weekly_data[j]
           IN \/ row.RSI = C9_EarlierRSI(row.Date)
              \/ row.RSI = NaN
              \/ C9_EarlierRSI(row.Date) = NaN)
          => trade_entry_date' = None]_vars

\* a bar with the oscillator equal to the previous bar's, inside both
\* thresholds, on an allowed day and with its high above the limit, passed by
C9_FlatBarPassedBy ==
    /\ pc = "eow"
    /\ cfg = SourceParams
    /\ Len(weekly_data) = 2
    /\ weekly_data[2].RSI = 51
    /\ weekly_data[1].RSI = 51
    /\ weekly_data[2].Date = 2
    /\ weekly_data[2].High >= limit_price
    /\ trade_entry_date = None


\* the places <<g, k>> of the segments where the row of date d stands
PlacesOf(d) ==
    {p \in {<<g, k>> : g \in 1..Len(grouped), k \in 1..MaxBars} :
        p[2] <= Len(grouped[p[1]]) /\ grouped[p[1]][p[2]].Date = d}

\* C11: every bar of the table stands in exactly one weekly segment and the
\* segments hold nothing else; two bars share a segment exactly when their
\* dates fall in the same Monday-to-Sunday week; the bars of a segment are in
\* ascending date order and the segments in ascending order of their weeks;
\* an empty table gives no segment.
C11_WeekPartition ==
    /\ \A i \in 1..Len(data) : Cardinality(PlacesOf(data[i].Date)) = 1
    /\ \A g \in 1..Len(grouped) :
        /\ grouped[g] # <<>>
        /\ \A k \in 1..Len(grouped[g]) :
            \E i \in 1..Len(data) : data[i] = grouped[g][k]
        /\ \A k \in 1..(Len(grouped[g]) - 1) :
            grouped[g][k].Date < grouped[g][k + 1].Date
    /\ \A g, h \in 1..Len(grouped) :
        \A k \in 1..Len(grouped[g]) : \A l \in 1..Len(grouped[h]) :
            /\ (g = h) <=>
                (grouped[g][k].Date \div 7 = grouped[h][l].Date \div 7)
            /\ g < h => grouped[g][k].Date \div 7 < grouped[h][l].Date \div 7
    /\ data = <<>> => grouped = <<>>
    /\ total_weeks = Len(grouped)

\* a table of two weeks, the first of them with several bars
C11_TwoWeeksSeveralBars ==
    /\ Len(grouped) = 2
    /\ Len(grouped[1]) >= 2


\* the week ended without an entry
NoTradeOutcome ==
    /\ ~trade_made
    /\ trade_entry_date = None /\ trade_entry_price = None
    /\ trade_exit_date = None /\ trade_exit_price = None

\* the week ended with a trade that has both ends
ClosedOutcome ==
    /\ trade_made
    /\ trade_entry_date # None /\ trade_entry_price # None
    /\ trade_exit_date # None /\ trade_exit_price # None

\* C12: the simulation of a week always comes to its end and ends in exactly
\* one of three ways. While rows are being iterated a next row exists and each
\* iteration moves one row on, so the loop ends within the week's rows; after
\* the loop the week is either without entry, or closed inside the loop, or
\* still open, and the open one is closed before the record is written; at the
\* record the week is either a no-trade week or a trade with both ends, and no
\* recorded trade lacks its exit date or its exit price.
C12_WeekResolves ==
    /\ [](pc = "bar" =>
            /\ j <= Len(weekly_data)
            /\ trade_exit_date = None
            /\ ENABLED ProcessBar)
    /\ [][pc = "bar" => j' = j + 1 /\ pc' \in {"bar", "eow"}]_vars
    /\ [](pc = "eow" =>
            /\ ENABLED (ForcedExit \/ NoForcedExit)
            /\ Cardinality({k \in 1..3 :
                    \/ k = 1 /\ NoTradeOutcome
                    \/ k = 2 /\ ClosedOutcome
                    \/ k = 3 /\ trade_made /\ trade_entry_date # None
                             /\ trade_exit_date = None}) = 1)
    /\ [][pc = "eow" => pc' = "record"]_vars
    /\ [](pc = "record" =>
            /\ ENABLED (RecordTrade \/ NoTrade)
            /\ NoTradeOutcome # ClosedOutcome)
    /\ [][pc = "record" => pc' = "week" /\ w' = w + 1]_vars
    /\ [](\A i \in 1..Len(trades) :
            /\ trades[i].ExitDate # None
            /\ trades[i].ExitPrice # None)

\* a week of several rows that was still in a trade after its last row, at
\* the record
C12_OpenTradeClosedAtRecord ==
    /\ pc = "record"
    /\ Len(weekly_data) >= 2
    /\ j = Len(weekly_data) + 1
    /\ ClosedOutcome
    /\ trade_entry_date < trade_exit_date
    /\ trade_exit_price \notin TargetsOf(limit_price)


\* C14: on the bar of the entry the boost check and then the exit check run.
\* When that bar's high is at least 1.08 times the entry price the trade is
\* closed on that very bar at 1.08 times the entry price with the boost flag
\* set; when the high is at least 1.035 times and below 1.08 times the entry
\* price the trade is left open by that bar with the boost flag set.
C14_BoostThenExitOnEntryBar ==
    [][(pc = "bar" /\ trade_entry_date = None /\ trade_entry_date' # None) =>
        LET row == weekly_data[j]
            e == trade_entry_price'
        IN  /\ trade_entry_date' = row.Date
            /\ row.High * 100 >= e * 108 =>
                /\ increased_take_profit'
                /\ trade_exit_date' = trade_entry_date'
                /\ trade_exit_price' * 100 = e * 108
                /\ pc' = "eow"
            /\ (row.High * 200 >= e * 207 /\ row.High * 100 < e * 108) =>
                /\ increased_take_profit'
                /\ trade_exit_date' = None
                /\ trade_exit_price' = None
                /\ pc' = (IF j < Len(weekly_data) THEN "bar" ELSE "eow")]_vars

\* one week's trade closed on its entry bar at the boosted price, the next
\* week's trade boosted on its entry bar and closed by the forced exit only
C14_BothCasesRecorded ==
    /\ Len(trades) = 2
    /\ trades[1].EntryDate = trades[1].ExitDate
    /\ trades[1].TPBoost
    /\ trades[1].ExitPrice * 100 = trades[1].EntryPrice * 108
    /\ trades[2].TPBoost
    /\ trades[2].EntryDate = 7
    /\ grouped[2][1].High * 200 >= trades[2].EntryPrice * 207
    /\ grouped[2][1].High * 100 < trades[2].EntryPrice * 108
    /\ trades[2].ExitPrice * 100 < trades[2].EntryPrice * 107


\* C15: from the entry to the end of the week the entry date, the entry price
\* and the oscillator value of the entry keep their values on every step,
\* and the record written for the week carries exactly them.
C15_EntryFieldsFrozen ==
    [][(pc \in {"bar", "eow", "record"} /\ trade_entry_date # None) =>
        /\ UNCHANGED <<trade_entry_date, trade_entry_price, trade_entry_rsi>>
        /\ pc = "record" =>
            /\ Len(trades') = Len(trades) + 1
            /\ trades'[Len(trades')].EntryDate = trade_entry_date
            /\ trades'[Len(trades')].EntryPrice = trade_entry_price
            /\ trades'[Len(trades')].EntryRSI = trade_entry_rsi]_vars

\* a bar after the entry bar has been iterated that meets every entry
\* condition, at a limit price other than the entry price
C15_LaterBarAlsoQualifies ==
    /\ pc \in {"bar", "eow"}
    /\ j >= 3
    /\ trade_entry_date # None
    /\ trade_entry_date < weekly_data[j - 1].Date
    /\ price_condition_met(weekly_data[j - 1], limit_price)
    /\ indicators_condition_met(weekly_data[j - 1])
    /\ days_condition_met(weekly_data[j - 1])
    /\ limit_price # trade_entry_price


\* C16: after the bar on which the take-profit exit fires no further bar of
\* the week is iterated: no iteration starts with the exit set, the exit bar
\* is the last bar iterated, and from there to the record no per-week
\* variable changes and no random value is drawn, the end-of-week draw
\* included.
C16_NothingAfterTakeProfit ==
    /\ [](pc = "bar" => trade_exit_date = None)
    /\ [](ClosedByTakeProfit => trade_exit_date = weekly_data[j - 1].Date)
    /\ [][ClosedByTakeProfit =>
            pc' = "record" /\ UNCHANGED <<weekVars, j, rng_calls>>]_vars
    /\ [][pc = "record" => UNCHANGED <<weekVars, j, rng_calls>>]_vars

\* a week at its record whose take-profit exit left rows uniterated
C16_RowsLeftAfterExit ==
    /\ pc = "record"
    /\ j <= Len(weekly_data)
    /\ trade_exit_date = weekly_data[j - 1].Date
    /\ trade_exit_date < LastRow.Date


\* the random values a step draws when each iterated bar draws perBar of them
DrawsOfStep(perBar) ==
    IF pc = "bar" THEN perBar
    ELSE IF pc = "eow" /\ trade_entry_date # None /\ trade_exit_date = None
    THEN 1 ELSE 0

\* C17 as stated: every bar iterated draws two random values, whether or not
\* it enters, and the forced end-of-week exit draws exactly one more.
C17_TwoDrawsPerBar ==
    [][rng_calls' = rng_calls + DrawsOfStep(2)]_vars

\* C17, amended: every bar iterated draws exactly one random value (line
\* 168), whether or not it enters and whether or not a trade is open, the
\* forced end-of-week exit draws exactly one more (line 214), and no other
\* step draws.
C17_OneDrawPerBar ==
    [][rng_calls' = rng_calls + DrawsOfStep(1)]_vars

\* the first week, entered after its first bar and closed by the forced exit:
\* one draw for each of its bars and one for the exit
C17_DrawsOfForcedWeek ==
    /\ pc = "record"
    /\ w = 1
    /\ Len(weekly_data) >= 2
    /\ trade_entry_date # None
    /\ weekly_data[1].Date < trade_entry_date
    /\ j = Len(weekly_data) + 1
    /\ rng_calls = Len(weekly_data) + 1


\* the sum of the profit percentages of the first k recorded trades
RECURSIVE ProfitOfFirst(_)
ProfitOfFirst(k) ==
    IF k = 0 THEN Rat(0, 1)
    ELSE RatAdd(ProfitOfFirst(k - 1), trades[k].Profit)

\* the recorded trades that closed above their entry price
Winners == {i \in 1..Len(trades) : trades[i].ExitPrice > trades[i].EntryPrice}

\* C18: in the report of a run with trades, the profit per week times the
\* number of weekly segments of the table, no-trade weeks included, is the sum
\* of the trades' profit percentages; the winning trades are those with a
\* profit strictly above zero, and the losing trades are all the others, a
\* trade of profit zero among them.
C18_AggregateDenominators ==
    pc = "done" =>
        /\ report.total_weeks = Len(grouped)
        /\ Rat(report.profit_per_week.num * Len(grouped),
               report.profit_per_week.den) = ProfitOfFirst(Len(trades))
        /\ report.winning_trades = Cardinality(Winners)
        /\ report.losing_trades = Len(trades) - Cardinality(Winners)
        /\ report.losing_trades >=
            Cardinality({i \in 1..Len(trades) :
                            trades[i].ExitPrice = trades[i].EntryPrice})

\* a report over two weeks with a single trade, of profit other than zero
C18_NoTradeWeekCounted ==
    /\ pc = "done"
    /\ Len(grouped) = 2
    /\ Len(trades) = 1
    /\ trades[1].ExitPrice # trades[1].EntryPrice
    /\ report.profit_per_week # report.average_profit

\* a report counting a trade of profit zero as a losing trade
C18_ZeroProfitLoser ==
    /\ pc = "done"
    /\ Len(trades) = 1
    /\ trades[1].ExitPrice = trades[1].EntryPrice
    /\ report.losing_trades = 1


\* lines 165-208 from row k on: the per-week variables after the loop, from
\* the per-week variables s and the values draws[k], draws[k + 1], ... drawn
\* at line 168
RECURSIVE RestOfWeek(_, _, _)
RestOfWeek(s, k, draws) ==
    IF k > Len(weekly_data) THEN s
    ELSE LET n == BarStep(s, weekly_data[k], draws[k])
         IN IF LoopContinues(n, k) THEN RestOfWeek(n, k + 1, draws) ELSE n

\* lines 211-215 on the per-week variables s with the value eow drawn at
\* line 214
ClosedWeek(s, eow) ==
    IF s.trade_entry_date # None /\ s.trade_exit_date = None
    THEN [s EXCEPT !.trade_exit_date = LastRow.Date,
                   !.trade_exit_price = LastRow.Close + eow]
    ELSE s

\* what lines 219-232 record of the per-week variables s
TradeOf(s) ==
    <<s.trade_entry_date, s.trade_entry_price, s.trade_entry_rsi,
      s.trade_exit_date, s.trade_exit_price, s.increased_take_profit>>

\* C19: right after the entry bar, with rows of the week still to come, any
\* two continuations of the week that draw the same end-of-week value record
\* the same trade, whatever open-side values they draw on the rows after the
\* entry bar.
C19_PostEntryDrawsIrrelevant ==
    (/\ pc = "bar"
     /\ j >= 2
     /\ trade_entry_date = weekly_data[j - 1].Date) =>
        \A eow \in Uniform(close_max_slippage) :
            \A d1, d2 \in [j..Len(weekly_data) -> Uniform(open_max_slippage)] :
                TradeOf(ClosedWeek(RestOfWeek(WeekState, j, d1), eow))
                    = TradeOf(ClosedWeek(RestOfWeek(WeekState, j, d2), eow))


\* C20: a trade closed inside the loop, by the take-profit exit, closes above
\* its entry price and with the boost flag set; a trade that loses or was
\* never boosted was closed by the forced exit.
C20_TakeProfitWinsBoosted ==
    (ClosedByTakeProfit /\ take_profit_percentage > 0 /\ take_profit_increase >= 0)
        => (trade_exit_price > trade_entry_price /\ increased_take_profit)

====
